---- MODULE Spec2Model ----
(***************************************************************************)
(* A model of the acoustic synthesis and event-scheduling engine,          *)
(* src/services/audioService.ts (class AudioService), together with the    *)
(* parts of the browser runtime it drives: the Web Audio graph (nodes,     *)
(* connections, started sources, AudioParam targets) and the window's      *)
(* list of active timers.                                                  *)
(*                                                                         *)
(* Numbers are fixed point.  Unless said otherwise a value is in           *)
(* thousandths (1000 stands for 1.0): multipliers, gains, Math.random()    *)
(* draws.  Frequencies of voices are in mHz, detune in thousandths of a    *)
(* cent, timer delays in microseconds.                                     *)
(*                                                                         *)
(* Every handler is one operator from a world record (the engine's fields  *)
(* and the runtime's state) to the world record after the handler          *)
(* returned; a handler that calls another one applies its operator.  The   *)
(* actions at the end commit the resulting record to the variables.        *)
(***************************************************************************)
EXTENDS Integers, Sequences, FiniteSets, TLC

VARIABLES
    \* ---- fields of AudioService (audioService.ts:5-20)
    ctx,                          \* 0 (null) or the number of the AudioContext
    masterGain, globalFilter,     \* node ids, or NULL
    delayNode, feedbackGain, wetGain,
    oscillators,                  \* sequence of node ids  [LFO, Osc, LFO, Osc, ...]
    activeNodes,                  \* sequence of node ids
    baseFrequencies,              \* sequence of frequencies (mHz)
    collisionTimer,               \* 0 (null) or a timer handle
    currentDissonanceMultiplier,
    \* ---- the Web Audio runtime
    ctxState,                     \* "none" | "suspended" | "running"
    built,                        \* how many AudioContexts were ever constructed
    started,                      \* source nodes started and not yet stopped or ended
    edges,                        \* connections <<from, to>>
    param,                        \* node id -> record of the node's settings
    resumePending,                \* some initialize() call still awaits ctx.resume()
    initDone,                     \* some initialize() call has completed
    \* ---- the window's list of active timers
    timers,                       \* set of [id, normalized, interval, due]
    \* ---- observation of the last handler that ran
    lastOp,                       \* its name
    calls,                        \* the runtime calls it issued, in order
    thrown,                       \* the runtime call whose error it let out ("none")
    \* ---- the state of the App component (App.tsx:13-24)
    activeLocation,               \* a record of the catalogue, or NoLocation
    isPlaying,
    volume,
    filterValue,
    dissonanceValue,
    hasInteracted,
    starting                      \* a handleStart call awaits its initialize()

vars == <<ctx, masterGain, globalFilter, delayNode, feedbackGain, wetGain,
          oscillators, activeNodes, baseFrequencies, collisionTimer,
          currentDissonanceMultiplier, ctxState, built, started, edges, param,
          resumePending, initDone, timers, lastOp, calls, thrown,
          activeLocation, isPlaying, volume, filterValue, dissonanceValue,
          hasInteracted, starting>>
appVars == <<activeLocation, isPlaying, volume, filterValue, dissonanceValue,
             hasInteracted, starting>>

----------------------------------------------------------------------------
\* Bounds of the model

\* Math.random() is an input: a handler reads its draws from one of NumTapes tapes.
NumTapes == 1
\* Transients (ticks, clicks) that may be sounding at the same time.
MaxInflight == 2
\* Sessions that may have left nodes behind when the runtime starts to fail a call.
MaxLeaked == 1

----------------------------------------------------------------------------
\* Node ids and small helpers

NULL == <<"null", 0, 0>>
Destination == <<"destination", 0, 0>>

Node(kind, a, b) == <<kind, a, b>>
Kind(n) == n[1]
Owner(n) == n[2]

VoiceKinds == {"osc", "lfo", "lfoGain", "gain", "panner"}
TransientKinds == {"tickNoise", "tickFilter", "tickGain",
                   "clickNoise", "clickFilter", "clickGain", "clickPanner"}
PersistentKinds == {"masterGain", "globalFilter", "delayNode", "feedbackGain", "wetGain"}

Range(seq) == {seq[i] : i \in 1..Len(seq)}

Max(a, b) == IF a >= b THEN a ELSE b
Min(a, b) == IF a <= b THEN a ELSE b

\* The least natural number from 1 that is not in used.
Fresh(used) == CHOOSE k \in 1..(Cardinality(used) + 1) :
                  /\ k \notin used
                  /\ \A j \in 1..(k - 1) : j \in used

RECURSIVE SqrtIter(_, _, _)
SqrtIter(n, lo, hi) ==
    IF lo >= hi THEN lo
    ELSE LET mid == (lo + hi + 1) \div 2
         IN IF mid * mid <= n THEN SqrtIter(n, mid, hi) ELSE SqrtIter(n, lo, mid - 1)

\* floor(sqrt(n)) for 0 <= n < 2^31
ISqrt(n) == SqrtIter(n, 0, Min(n, 46340))

\* Math.pow(m, 2.5) in thousandths: m^2 * sqrt(m)
Pow25(m) == (((m * m) \div 1000) * ISqrt(m * 1000)) \div 1000

\* Math.random(): the k-th draw of tape t, in 0..999 (the code's [0, 1)).
\* Tape 2 is all 0 and tape 3 all 999 (the ends of the range); every other tape
\* runs through four values, from a place that depends on the tape.
Tapes == 1..NumTapes
Draw(t, k) ==
    CASE t = 2 -> 0
      [] t = 3 -> 999
      [] OTHER -> <<0, 333, 666, 999>>[((k + t) % 4) + 1]

----------------------------------------------------------------------------
\* The world a handler runs in: the engine's fields, the runtime, and the
\* handler's own tape of random draws (tape, k: the draws taken so far).

Cur(tape) ==
    [ctx |-> ctx, masterGain |-> masterGain, globalFilter |-> globalFilter,
     delayNode |-> delayNode, feedbackGain |-> feedbackGain, wetGain |-> wetGain,
     oscillators |-> oscillators, activeNodes |-> activeNodes,
     baseFrequencies |-> baseFrequencies, collisionTimer |-> collisionTimer,
     currentDissonanceMultiplier |-> currentDissonanceMultiplier,
     ctxState |-> ctxState, built |-> built, started |-> started, edges |-> edges,
     param |-> param, resumePending |-> resumePending, initDone |-> initDone,
     timers |-> timers, calls |-> <<>>, tape |-> tape, k |-> 0,
     \* the failures the runtime answers this handler with: the call that throws
     \* (fault: its name and which of the calls of that name), and the nodes whose
     \* stop() and whose disconnect() throw
     fault |-> <<"none", 0>>, failStop |-> {}, failDisc |-> {},
     \* the call that threw, and the world as it was when it did
     thrown |-> "none", snap |-> <<>>]

Commit(s, op) ==
    /\ ctx' = s.ctx
    /\ masterGain' = s.masterGain
    /\ globalFilter' = s.globalFilter
    /\ delayNode' = s.delayNode
    /\ feedbackGain' = s.feedbackGain
    /\ wetGain' = s.wetGain
    /\ oscillators' = s.oscillators
    /\ activeNodes' = s.activeNodes
    /\ baseFrequencies' = s.baseFrequencies
    /\ collisionTimer' = s.collisionTimer
    /\ currentDissonanceMultiplier' = s.currentDissonanceMultiplier
    /\ ctxState' = s.ctxState
    /\ built' = s.built
    /\ started' = s.started
    /\ edges' = s.edges
    /\ param' = s.param
    /\ resumePending' = s.resumePending
    /\ initDone' = s.initDone
    /\ timers' = s.timers
    /\ lastOp' = op
    /\ calls' = s.calls
    /\ thrown' = s.thrown

\* The sessions that have a tone generator or modulator sounding.
LiveSessions(st) == {Owner(n) : n \in {x \in st : Kind(x) \in {"osc", "lfo"}}}

\* A call into the runtime, as the handler issues it: its name, the node it is
\* made on, the value it passes, and what was sounding and armed at that moment.
\* A call that throws ends the handler there (no handler but stopAll catches
\* anything): what the handler had done up to it stands, nothing after it does.
EmitValue(s, ev, node, value) ==
    LET nth == Cardinality({i \in 1..Len(s.calls) : s.calls[i].ev = ev}) + 1
        s1  == [s EXCEPT !.calls = Append(@, [ev |-> ev, node |-> node, value |-> value,
                                              live |-> LiveSessions(s.started),
                                              armed |-> Cardinality(s.timers)])]
    IN IF s.thrown = "none" /\ s.fault = <<ev, nth>>
       THEN [s1 EXCEPT !.thrown = ev, !.snap = <<s>>]
       ELSE s1
\* What the handler leaves behind.
Outcome(s) ==
    IF s.thrown = "none" THEN s ELSE [s.snap[1] EXCEPT !.thrown = s.thrown]
Emit(s, ev, node) == EmitValue(s, ev, node, 0)

\* Math.random()
Rand(s) == Draw(s.tape, s.k + 1)
Drawn(s) == [s EXCEPT !.k = @ + 1]

SetParam(s, n, rec) == [s EXCEPT !.param = (n :> rec) @@ @]
Connect(s, from, to) == [s EXCEPT !.edges = @ \cup {<<from, to>>}]
\* node.disconnect(): drops every outgoing connection of the node
Disconnect(s, n) == [s EXCEPT !.edges = {e \in @ : e[1] # n}]


\* Nodes nothing refers to any more (not tracked, not sounding, not connected) are
\* reclaimed by the runtime together with their settings.
Reachable(s) ==
    Range(s.oscillators) \cup Range(s.activeNodes) \cup s.started
      \cup {e[1] : e \in s.edges} \cup {e[2] : e \in s.edges}
      \cup {s.masterGain, s.globalFilter, s.delayNode, s.feedbackGain, s.wetGain}
Collect(s) == [s EXCEPT !.param = [n \in (DOMAIN @) \cap Reachable(s) |-> @[n]]]

----------------------------------------------------------------------------
\* initialize()                                        audioService.ts:22-64

\* audioService.ts:23-60: the persistent graph, built when there is no context.
\* fresh is the state the new AudioContext starts in.
buildGraph(s, fresh) ==
    LET g  == s.built + 1
        mg == Node("masterGain", g, 0)
        gf == Node("globalFilter", g, 0)
        dn == Node("delayNode", g, 0)
        fg == Node("feedbackGain", g, 0)
        wg == Node("wetGain", g, 0)
        s1 == [s EXCEPT !.ctx = g, !.built = g, !.ctxState = fresh]
        s2 == SetParam([Emit(s1, "createGain", mg) EXCEPT !.masterGain = mg],
                       mg, [gain |-> 500])
        s3 == SetParam([Emit(s2, "createBiquadFilter", gf) EXCEPT !.globalFilter = gf],
                       gf, [type |-> "lowpass", frequency |-> 20000, Q |-> 1000])
        s4 == SetParam([Emit(s3, "createDelay", dn) EXCEPT !.delayNode = dn],
                       dn, [delayTime |-> 400])
        s5 == SetParam([Emit(s4, "createGain", fg) EXCEPT !.feedbackGain = fg],
                       fg, [gain |-> 400])
        s6 == SetParam([Emit(s5, "createGain", wg) EXCEPT !.wetGain = wg],
                       wg, [gain |-> 250])
    IN [s6 EXCEPT !.edges = @ \cup {<<gf, mg>>, <<gf, dn>>, <<dn, wg>>, <<wg, mg>>,
                                    <<dn, fg>>, <<fg, dn>>, <<mg, Destination>>}]

\* (initialize without the test at audioService.ts:23)
initialize_m(s, fresh) ==
    LET s1 == buildGraph(s, fresh)
    IN IF s1.ctxState = "suspended"
       THEN [Emit(s1, "resume", NULL) EXCEPT !.resumePending = TRUE]
       ELSE [s1 EXCEPT !.initDone = TRUE]

initialize(s, fresh) ==
    LET s1 == IF s.ctx = 0 THEN buildGraph(s, fresh) ELSE s
    IN IF s1.ctxState = "suspended"
       THEN \* await this.ctx.resume(): the call returns to its caller, pending
            [Emit(s1, "resume", NULL) EXCEPT !.resumePending = TRUE]
       ELSE [s1 EXCEPT !.initDone = TRUE]


----------------------------------------------------------------------------
\* setVolume(val)                                      audioService.ts:66-70

\* (setVolume that sets the level on the gain of every voice as well)
setVolume_voices(s, val) ==
    IF s.masterGain # NULL /\ s.ctx # 0
    THEN LET gains == {s.masterGain} \cup {n \in Range(s.activeNodes) : Kind(n) = "gain"}
             s1    == EmitValue(s, "gain.setTargetAtTime", s.masterGain, val)
         IN [s1 EXCEPT !.param = [n \in gains |-> [gain |-> val]] @@ @]
    ELSE s

\* (setVolume without the test at audioService.ts:67)
setVolume_m(s, val) ==
    SetParam(EmitValue(s, "gain.setTargetAtTime", s.masterGain, val),
             s.masterGain, [gain |-> val])

setVolume(s, val) ==
    IF s.masterGain # NULL /\ s.ctx # 0
    THEN SetParam(EmitValue(s, "gain.setTargetAtTime", s.masterGain, val),
                  s.masterGain, [gain |-> val])
    ELSE s

\* setFilterFrequency(normalizedVal)                   audioService.ts:73-81

\* Math.pow(200, 1/4) and Math.pow(200, 1/2), in thousandths
Root4Of200 == ISqrt(ISqrt(200 * 1000000) * 1000)
Root2Of200 == ISqrt(200 * 1000000)

\* (the mapping with minFreq and maxFreq taken for each other)
FilterFreq_m(v) ==
    CASE v = 0    -> 20000
      [] v = 250  -> (20000 * 1000) \div Root4Of200
      [] v = 500  -> (20000 * 1000) \div Root2Of200
      [] v = 750  -> (20000 * 1000) \div ((Root2Of200 * Root4Of200) \div 1000)
      [] v = 1000 -> 20000 \div 200

\* 100 * Math.pow(20000 / 100, v) in Hz, for v a multiple of 250 (a quarter)
FilterFreq(v) ==
    CASE v = 0    -> 100
      [] v = 250  -> (100 * Root4Of200) \div 1000
      [] v = 500  -> (100 * Root2Of200) \div 1000
      [] v = 750  -> (100 * ((Root2Of200 * Root4Of200) \div 1000)) \div 1000
      [] v = 1000 -> 100 * 200

setFilterFrequency(s, normalizedVal) ==
    IF s.globalFilter # NULL /\ s.ctx # 0
    THEN LET freq == FilterFreq(normalizedVal)
             s1   == Emit(s, "setFilterFrequency", <<normalizedVal>>)
         IN SetParam(EmitValue(s1, "frequency.setTargetAtTime", s.globalFilter, freq),
                     s.globalFilter,
                     [s.param[s.globalFilter] EXCEPT !.frequency = freq])
    ELSE s

----------------------------------------------------------------------------
\* setDissonance(multiplier)                           audioService.ts:84-128

\* audioService.ts:110   intensity = Math.pow(multiplier, 2.5) - 1
\* (the intensity held to 1 at most)
Intensity_m(multiplier) == Min(Pow25(multiplier) - 1000, 1000)

Intensity(multiplier) == Pow25(multiplier) - 1000

\* audioService.ts:107-116   the detune target of voice voiceIndex, random draw r
DetuneTarget(multiplier, voiceIndex, r) ==
    LET intensity    == Intensity(multiplier)
        detuneAmount == (2 * voiceIndex + 1) * 25 * intensity
        randomFlux   == ((r * 20 - 10000) * intensity) \div 1000
    IN detuneAmount + randomFlux

\* audioService.ts:124   newLfoRate = 0.5 + Math.random() * 8 * (multiplier - 1)
NewLfoRate(multiplier, r) == 500 + (r * 8 * (multiplier - 1000)) \div 1000

\* audioService.ts:122   the threshold above which the modulator rate is randomized
LfoThreshold == 1200

\* (the turn with the modulator rate randomized from 1.2 on, 1.2 included)
dissonanceStep_m(s, multiplier, i) ==
    LET lfo == IF i + 1 <= Len(s.oscillators) THEN s.oscillators[i + 1] ELSE NULL
        osc == IF i + 2 <= Len(s.oscillators) THEN s.oscillators[i + 2] ELSE NULL
    IN IF osc = NULL \/ lfo = NULL THEN s
       ELSE LET detune == DetuneTarget(multiplier, i \div 2, Rand(s))
                s2 == Drawn(SetParam(EmitValue(s, "detune.setTargetAtTime", osc, detune),
                                     osc, [s.param[osc] EXCEPT !.detune = detune]))
                newLfoRate == NewLfoRate(multiplier, Rand(s2))
            IN IF multiplier >= LfoThreshold
               THEN Drawn(SetParam(
                        EmitValue(s2, "lfo.frequency.setTargetAtTime", lfo, newLfoRate),
                        lfo, [s2.param[lfo] EXCEPT !.frequency = newLfoRate]))
               ELSE s2

\* One turn of the loop at audioService.ts:94-127, for array index i (0-based).
dissonanceStep(s, multiplier, i) ==
    LET lfo == IF i + 1 <= Len(s.oscillators) THEN s.oscillators[i + 1] ELSE NULL
        osc == IF i + 2 <= Len(s.oscillators) THEN s.oscillators[i + 2] ELSE NULL
    IN IF osc = NULL \/ lfo = NULL THEN s
       ELSE LET voiceIndex == i \div 2
                detune == DetuneTarget(multiplier, voiceIndex, Rand(s))
                s1 == SetParam(EmitValue(s, "detune.setTargetAtTime", osc, detune), osc,
                               [s.param[osc] EXCEPT !.detune = detune])
                s2 == Drawn(s1)
                newLfoRate == NewLfoRate(multiplier, Rand(s2))
            IN IF multiplier > LfoThreshold
               THEN Drawn(SetParam(
                        EmitValue(s2, "lfo.frequency.setTargetAtTime", lfo, newLfoRate),
                        lfo, [s2.param[lfo] EXCEPT !.frequency = newLfoRate]))
               ELSE s2

\* (the loop with a stride of 1)
RECURSIVE dissonanceLoop_m(_, _, _)
dissonanceLoop_m(s, multiplier, i) ==
    IF i < Len(s.oscillators)
    THEN dissonanceLoop_m(dissonanceStep(s, multiplier, i), multiplier, i + 1)
    ELSE s

RECURSIVE dissonanceLoop(_, _, _)
dissonanceLoop(s, multiplier, i) ==
    IF i < Len(s.oscillators)
    THEN dissonanceLoop(dissonanceStep(s, multiplier, i), multiplier, i + 2)
    ELSE s

\* (setDissonance with its safety check before the store)
setDissonance_live(s, multiplier) ==
    IF s.ctx = 0 \/ Len(s.oscillators) = 0 THEN s
    ELSE dissonanceLoop([s EXCEPT !.currentDissonanceMultiplier = multiplier],
                        multiplier, 0)

\* (setDissonance that takes a multiplier of 1.0 to need no pass)
setDissonance_m(s, multiplier) ==
    LET s1 == [s EXCEPT !.currentDissonanceMultiplier = multiplier]
    IN IF s1.ctx = 0 \/ Len(s1.oscillators) = 0 \/ multiplier = 1000 THEN s1
       ELSE dissonanceLoop(s1, multiplier, 0)

setDissonance(s, multiplier) ==
    LET s1 == [s EXCEPT !.currentDissonanceMultiplier = multiplier]
    IN IF s1.ctx = 0 \/ Len(s1.oscillators) = 0 THEN s1
       ELSE dissonanceLoop(s1, multiplier, 0)

----------------------------------------------------------------------------
\* stopAll()                                           audioService.ts:130-149

\* (stopAll that forgets the handle without cancelling the timeout)
cancelTimer_m(s) == [s EXCEPT !.collisionTimer = 0]

\* (a clearTimeout that comes too late for a timeout already due: its task runs)
cancelTimer_late(s) ==
    IF s.collisionTimer # 0
    THEN [EmitValue(s, "clearTimeout", NULL,
                    Cardinality({t \in s.timers : t.id = s.collisionTimer /\ t.due}))
          EXCEPT
             !.timers = {t \in @ : t.id # s.collisionTimer \/ t.due},
             !.collisionTimer = 0]
    ELSE s

\* audioService.ts:131-134
cancelTimer(s) ==
    IF s.collisionTimer # 0
    THEN [EmitValue(s, "clearTimeout", NULL,
                    Cardinality({t \in s.timers : t.id = s.collisionTimer /\ t.due}))
          EXCEPT
             !.timers = {t \in @ : t.id # s.collisionTimer},
             !.collisionTimer = 0]
    ELSE s

\* (the loop at audioService.ts:135-140 without its try/catch)
RECURSIVE stopOscillators_m(_, _)
stopOscillators_m(s, i) ==
    IF i > Len(s.oscillators) THEN s
    ELSE LET osc == s.oscillators[i]
             s0  == Emit(s, "stop", osc)
             s1  == [s0 EXCEPT !.started = @ \ {osc}]
             s2  == Emit(s1, "disconnect", osc)
         IN IF osc \in s.failStop
            THEN [s0 EXCEPT !.thrown = "stop", !.snap = <<s>>]
            ELSE stopOscillators_m(IF osc \in s.failDisc THEN s2 ELSE Disconnect(s2, osc),
                                   i + 1)

\* audioService.ts:135-140   try { osc.stop(); osc.disconnect(); } catch (e) {}
\* (a stop() that throws leaves the oscillator as it is and skips its disconnect();
\* a disconnect() that throws leaves its connections in place)
RECURSIVE stopOscillators(_, _)
stopOscillators(s, i) ==
    IF i > Len(s.oscillators) THEN s
    ELSE LET osc == s.oscillators[i]
             s0  == Emit(s, "stop", osc)
             s1  == [s0 EXCEPT !.started = @ \ {osc}]
             s2  == Emit(s1, "disconnect", osc)
         IN stopOscillators(IF osc \in s.failStop THEN s0
                            ELSE IF osc \in s.failDisc THEN s2
                            ELSE Disconnect(s2, osc),
                            i + 1)

\* (stopAll without the loop at audioService.ts:141-145)
disconnectNodes_m(s, i) == s

\* audioService.ts:141-145   try { node.disconnect(); } catch (e) {}
RECURSIVE disconnectNodes(_, _)
disconnectNodes(s, i) ==
    IF i > Len(s.activeNodes) THEN s
    ELSE LET node == s.activeNodes[i]
             s1   == Emit(s, "disconnect", node)
         IN disconnectNodes(IF node \in s.failDisc THEN s1 ELSE Disconnect(s1, node),
                            i + 1)

\* (stopAll without the resets at audioService.ts:146-148)
clearTracked_m(s) == s

\* audioService.ts:146-148
clearTracked(s) ==
    [s EXCEPT !.oscillators = <<>>, !.activeNodes = <<>>, !.baseFrequencies = <<>>]

stopAll(s) ==
    clearTracked(disconnectNodes(stopOscillators(cancelTimer(s), 1), 1))

----------------------------------------------------------------------------
\* The transients                                      audioService.ts:246-353

\* ctx.sampleRate, the runtime's sample rate
SampleRate == 44100

TransientIds(s) ==
    {Owner(n) : n \in {x \in Reachable(s) : Kind(x) \in TransientKinds}}

\* The buffer loops at audioService.ts:255-257 and 319-321 draw one random number
\* per sample; the samples themselves are not kept.
fillBuffer(s, millis) == [s EXCEPT !.k = @ + (SampleRate * millis) \div 1000]

\* playTelemetrySound()                                audioService.ts:246-278
playTelemetrySound(s) ==
    IF s.ctx = 0 \/ s.masterGain = NULL THEN s
    ELSE LET id     == Fresh(TransientIds(s))
             noise  == Node("tickNoise", id, 0)
             filter == Node("tickFilter", id, 0)
             gain   == Node("tickGain", id, 0)
             s1 == fillBuffer(s, 20)
             s2 == SetParam(s1, filter, [type |-> "bandpass", frequency |-> 2500, Q |-> 1000])
             s3 == SetParam(s2, gain, [gain |-> 1])
             s4 == Connect(Connect(Connect(s3, noise, filter), filter, gain),
                           gain, s.masterGain)
         IN [Emit(s4, "tick.start", noise) EXCEPT !.started = @ \cup {noise}]

\* audioService.ts:330   1000 + Math.random() * 2000 + intensity * 2000, in Hz
ClickFreq(intensity, r) == 1000 + 2 * r + 2 * intensity

\* (a click whose noise source is kept with the session's nodes)
playClick_m(s, intensity) ==
    IF s.ctx = 0 \/ s.globalFilter = NULL THEN s
    ELSE LET noise == Node("clickNoise", Fresh(TransientIds(s)), 0)
             s1 == Connect(fillBuffer(s, 50), noise, s.globalFilter)
         IN [EmitValue(s1, "click.start", noise, intensity) EXCEPT
                !.started = @ \cup {noise},
                !.activeNodes = Append(@, noise)]

\* playClick(intensity)                                audioService.ts:311-353
\* (the centre frequency and the pan of a click are random: the model keeps them
\* in the record of the call that set them, not with the node)
playClick(s, intensity) ==
    IF s.ctx = 0 \/ s.globalFilter = NULL THEN s
    ELSE LET id          == Fresh(TransientIds(s))
             noise       == Node("clickNoise", id, 0)
             clickFilter == Node("clickFilter", id, 0)
             gain        == Node("clickGain", id, 0)
             panner      == Node("clickPanner", id, 0)
             s1 == fillBuffer(s, 50)
             freq == ClickFreq(intensity, Rand(s1))
             s2 == Drawn(EmitValue(s1, "clickFilter.frequency", clickFilter, freq))
             s3 == SetParam(s2, clickFilter,
                            [type |-> "bandpass", Q |-> 5000 + intensity * 5])
             s4 == Drawn(EmitValue(s3, "clickPanner.pan", panner, 2 * Rand(s3) - 1000))
             s5 == SetParam(s4, gain, [gain |-> 1])
             s6 == Connect(Connect(Connect(Connect(s5, noise, clickFilter),
                                           clickFilter, gain), gain, panner),
                           panner, s.globalFilter)
         IN [EmitValue(s6, "click.start", noise, intensity) EXCEPT
                !.started = @ \cup {noise}]

----------------------------------------------------------------------------
\* The collision scheduler                             audioService.ts:281-309

\* (the normalisation without its upper clamp)
Normalized_m(density) == Max(density, 0)

\* audioService.ts:288   Math.min(Math.max(density / 1000, 0), 1)
Normalized(density) == Min(Max(density, 0), 1000)

\* audioService.ts:292-295   the base interval in microseconds
BaseInterval(density) ==
    LET minRate == 300
        maxRate == 12000
        rate    == minRate + (Normalized(density) * (maxRate - minRate)) \div 1000
    IN 1000000000 \div rate

\* (the jitter taken twice: interval * (0.5 + 2 * Math.random()))
NextTime_m(interval, r) == (interval \div 1000) * (500 + 2 * r)

\* audioService.ts:301   interval * (0.5 + Math.random())
NextTime(interval, r) == (interval \div 1000) * (500 + r)

\* window.setTimeout returns a handle that identifies the new timeout: an integer
\* above 0 that names no other active timeout.
NewHandle(s) == Fresh({t.id : t \in s.timers})

\* (scheduleClick that plays its click and arms nothing)
scheduleClick_m(s, normalized, interval) ==
    IF s.ctx = 0 \/ s.globalFilter = NULL THEN s
    ELSE playClick(Drawn(s), normalized)

\* scheduleClick, the closure over normalized and interval.
scheduleClick(s, normalized, interval) ==
    IF s.ctx = 0 \/ s.globalFilter = NULL THEN s
    ELSE LET nextTime == NextTime(interval, Rand(s))
             s1 == playClick(Drawn(s), normalized)
             s2 == EmitValue(s1, "setTimeout", NULL, nextTime)
             handle == NewHandle(s2)
         IN [s2 EXCEPT
                !.timers = @ \cup {[id |-> handle, normalized |-> normalized,
                                    interval |-> interval, due |-> FALSE]},
                !.collisionTimer = handle]

\* (a scheduler that is never started)
startMicroCollisions_m(s, density) == s

\* audioService.ts:281-309
startMicroCollisions(s, density) ==
    IF s.ctx = 0 \/ s.globalFilter = NULL THEN s
    ELSE scheduleClick(s, Normalized(density), BaseInterval(density))

----------------------------------------------------------------------------
\* playData(location)                                  audioService.ts:151-243

\* (the profile selection with a CRITICAL branch, and the initial values of
\* audioService.ts:163-166 for every other level)
Profile_defaults(level) ==
    CASE level = "LOW" ->
           [oscillatorCount |-> 3, waveType |-> "sine",
            inherentDissonance |-> 1001, modulationSpeed |-> 50]
      [] level = "MODERATE" ->
           [oscillatorCount |-> 4, waveType |-> "triangle",
            inherentDissonance |-> 1020, modulationSpeed |-> 500]
      [] level = "HIGH" ->
           [oscillatorCount |-> 6, waveType |-> "sawtooth",
            inherentDissonance |-> 1100, modulationSpeed |-> 2000]
      [] level = "CRITICAL" ->
           [oscillatorCount |-> 8, waveType |-> "sawtooth",
            inherentDissonance |-> 1250, modulationSpeed |-> 8000]
      [] OTHER ->
           [oscillatorCount |-> 2, waveType |-> "sine",
            inherentDissonance |-> 1000, modulationSpeed |-> 100]

\* (the profile selection without its HIGH branch)
Profile_m(level) ==
    CASE level = "LOW" ->
           [oscillatorCount |-> 3, waveType |-> "sine",
            inherentDissonance |-> 1001, modulationSpeed |-> 50]
      [] level = "MODERATE" ->
           [oscillatorCount |-> 4, waveType |-> "triangle",
            inherentDissonance |-> 1020, modulationSpeed |-> 500]
      [] OTHER ->
           [oscillatorCount |-> 8, waveType |-> "sawtooth",
            inherentDissonance |-> 1250, modulationSpeed |-> 8000]

\* audioService.ts:163-188
Profile(level) ==
    CASE level = "LOW" ->
           [oscillatorCount |-> 3, waveType |-> "sine",
            inherentDissonance |-> 1001, modulationSpeed |-> 50]
      [] level = "MODERATE" ->
           [oscillatorCount |-> 4, waveType |-> "triangle",
            inherentDissonance |-> 1020, modulationSpeed |-> 500]
      [] level = "HIGH" ->
           [oscillatorCount |-> 6, waveType |-> "sawtooth",
            inherentDissonance |-> 1100, modulationSpeed |-> 2000]
      [] OTHER ->
           [oscillatorCount |-> 8, waveType |-> "sawtooth",
            inherentDissonance |-> 1250, modulationSpeed |-> 8000]

\* audioService.ts:160   100 + (latitude - 32) * 10, latitude in thousandths of a degree
BaseFreq(lat) == 100000 + (lat - 32000) * 10

\* (the waveform choice without the parity test: every voice has the profile's)
VoiceWave_allProfile(i, waveType) == waveType

\* (the waveform choice with the parity test inverted)
VoiceWave_m(i, waveType) == IF i % 2 = 1 THEN waveType ELSE "sine"

\* audioService.ts:196
VoiceWave(i, waveType) == IF i % 2 = 0 THEN waveType ELSE "sine"

\* audioService.ts:198-202   the frequency of voice i, random draw r
VoiceFreq(baseFreq, i, inherentDissonance, multiplier, r) ==
    LET freq     == (baseFreq * (2 + i)) \div 2
        variance == 1000000 + (r * (inherentDissonance - 1000) * multiplier) \div 1000
    IN (freq * (variance \div 1000)) \div 1000

\* audioService.ts:211
LfoDepth(level) == 50 * (IF level = "CRITICAL" THEN 5 ELSE 1)

\* One turn of the loop at audioService.ts:191-234: voice i of session sess.
buildVoice(s, sess, location, prof, i) ==
    LET osc     == Node("osc", sess, i)
        gain    == Node("gain", sess, i)
        panner  == Node("panner", sess, i)
        lfo     == Node("lfo", sess, i)
        lfoGain == Node("lfoGain", sess, i)
        freq == VoiceFreq(BaseFreq(location.lat), i, prof.inherentDissonance,
                          s.currentDissonanceMultiplier, Rand(s))
        s1 == Drawn([s EXCEPT !.baseFrequencies = Append(@, freq)])
        s2 == SetParam(s1, osc, [type |-> VoiceWave(i, prof.waveType),
                                 frequency |-> freq, detune |-> 0])
        s3 == Drawn(SetParam(s2, lfo,
                  [type |-> "sine",
                   frequency |-> (prof.modulationSpeed * (Rand(s2) + 1000)) \div 2000]))
        s4 == SetParam(s3, lfoGain, [gain |-> LfoDepth(location.level)])
        s5 == Connect(Connect(s4, lfo, lfoGain), lfoGain, osc)
        s6 == [Emit(s5, "lfo.start", lfo) EXCEPT
                  !.started = @ \cup {lfo},
                  !.oscillators = Append(@, lfo),
                  !.activeNodes = Append(@, lfoGain)]
        s7 == Drawn(SetParam(s6, panner, [pan |-> 2 * Rand(s6) - 1000]))
        s8 == SetParam(s7, gain, [gain |-> 100000 \div prof.oscillatorCount])
        s9 == Connect(Connect(Connect(s8, osc, gain), gain, panner),
                      panner, s.globalFilter)
    IN [Emit(s9, "osc.start", osc) EXCEPT
           !.started = @ \cup {osc},
           !.oscillators = Append(@, osc),
           !.activeNodes = @ \o <<gain, panner>>]

RECURSIVE buildVoices(_, _, _, _, _)
buildVoices(s, sess, location, prof, i) ==
    \* (the second conjunct always holds: it has the turn's state evaluated before
    \* the next turn starts, which keeps the evaluation flat)
    IF i < prof.oscillatorCount /\ Len(s.baseFrequencies) >= 0
    THEN buildVoices(buildVoice(s, sess, location, prof, i), sess, location, prof, i + 1)
    ELSE s

\* (playData without the pass at audioService.ts:236-239)
reapplyDissonance_never(s) == s

\* (the detuning pass run whatever the stored multiplier is)
reapplyDissonance_m(s) == setDissonance(s, s.currentDissonanceMultiplier)

\* audioService.ts:236-239
reapplyDissonance(s) ==
    IF s.currentDissonanceMultiplier # 1000
    THEN setDissonance(s, s.currentDissonanceMultiplier)
    ELSE s

\* The voice nodes of a session are new objects: their session number differs from
\* that of every voice node that exists when playData is called.
VoiceSessions(s) ==
    {Owner(n) : n \in {x \in Reachable(s) : Kind(x) \in VoiceKinds}}

\* (playData that builds on top of the session it finds)
playData_noStop(s, location) ==
    IF s.ctx = 0 \/ s.globalFilter = NULL THEN s
    ELSE LET sess == Fresh(VoiceSessions(s))
             s1 == Emit(s, "playData",
                        <<location.level, location.density, location.lat>>)
             s2 == playTelemetrySound(s1)
             s3 == buildVoices(s2, sess, location, Profile(location.level), 0)
             s4 == reapplyDissonance(s3)
         IN startMicroCollisions(s4, location.density)

\* (playData that emits the tick before it releases the old session)
playData_tickFirst(s, location) ==
    IF s.ctx = 0 \/ s.globalFilter = NULL THEN s
    ELSE LET sess == Fresh(VoiceSessions(s))
             s1 == playTelemetrySound(Emit(s, "playData",
                        <<location.level, location.density, location.lat>>))
             s2 == stopAll(s1)
             s3 == buildVoices(s2, sess, location, Profile(location.level), 0)
             s4 == reapplyDissonance(s3)
         IN startMicroCollisions(s4, location.density)

playData(s, location) ==
    IF s.ctx = 0 \/ s.globalFilter = NULL THEN s
    ELSE LET sess == Fresh(VoiceSessions(s))
             s1 == stopAll(Emit(s, "playData",
                                <<location.level, location.density, location.lat>>))
             s2 == playTelemetrySound(s1)
             s3 == buildVoices(s2, sess, location, Profile(location.level), 0)
             s4 == reapplyDissonance(s3)
         IN startMicroCollisions(s4, location.density)

----------------------------------------------------------------------------
\* The actions: the public operations, the timer callback, and the runtime's own
\* steps.

\* A record of the catalogue (src/types.ts, DebrisLocation): what the engine reads
Loc(level, density, lat) == [level |-> level, density |-> density, lat |-> lat]
\* useState<DebrisLocation | null>(null)               App.tsx:13
NoLocation == Loc("null", 0, 0)

Init ==
    /\ ctx = 0
    /\ masterGain = NULL /\ globalFilter = NULL /\ delayNode = NULL
    /\ feedbackGain = NULL /\ wetGain = NULL
    /\ oscillators = <<>> /\ activeNodes = <<>> /\ baseFrequencies = <<>>
    /\ collisionTimer = 0
    /\ currentDissonanceMultiplier = 1000
    /\ ctxState = "none"
    /\ built = 0
    /\ started = {} /\ edges = {}
    /\ param = [n \in {} |-> 0]
    /\ resumePending = FALSE
    /\ initDone = FALSE
    /\ timers = {}
    /\ lastOp = "new"
    /\ calls = <<>>
    /\ thrown = "none"
    \* App.tsx:13-24
    /\ activeLocation = NoLocation
    /\ isPlaying = FALSE
    /\ volume = 500
    /\ filterValue = 1000
    /\ dissonanceValue = 1000
    /\ hasInteracted = FALSE
    /\ starting = FALSE

Inflight == Cardinality(TransientIds(Cur(1)))

\* A handler returns: what it did is the new state.
Returns(s, op) == Commit(Collect(Outcome(s)), op) /\ UNCHANGED appVars

Initialize ==
    \E fresh \in {"suspended", "running"} :
        Returns(initialize(Cur(1), fresh), "initialize")

SetVolume(val) == Returns(setVolume(Cur(1), val), "setVolume")

SetFilterFrequency(normalizedVal) ==
    Returns(setFilterFrequency(Cur(1), normalizedVal), "setFilterFrequency")

SetDissonance(multiplier) ==
    \E tape \in Tapes : Returns(setDissonance(Cur(tape), multiplier), "setDissonance")

StopAll == Returns(stopAll(Cur(1)), "stopAll")

PlayData(location) ==
    \E tape \in Tapes :
        /\ Inflight + 2 <= MaxInflight
        /\ Returns(playData(Cur(tape), location), "playData")

\* The delay of an armed timeout has elapsed: its task is queued.
TimerDue ==
    \E t \in timers :
        /\ ~t.due
        /\ timers' = (timers \ {t}) \cup {[t EXCEPT !.due = TRUE]}
        /\ UNCHANGED <<ctx, masterGain, globalFilter, delayNode, feedbackGain, wetGain,
                       oscillators, activeNodes, baseFrequencies, collisionTimer,
                       currentDissonanceMultiplier, ctxState, built, started, edges,
                       param, resumePending, initDone, lastOp, calls, thrown,
                       appVars>>

\* The task of a due timeout runs its callback, scheduleClick; the timeout has left
\* the list of active timers by then.
TimerFire ==
    \E t \in timers, tape \in Tapes :
        /\ t.due
        /\ Inflight + 1 <= MaxInflight
        /\ Returns(scheduleClick([Cur(tape) EXCEPT !.timers = @ \ {t}],
                                 t.normalized, t.interval),
                   "scheduleClick")

\* The context starts running: every pending ctx.resume() settles, and the
\* initialize() calls that await one go on and complete.
ResumeResolves ==
    /\ resumePending
    /\ ctxState' = "running"
    /\ resumePending' = FALSE
    /\ initDone' = TRUE
    /\ UNCHANGED <<ctx, masterGain, globalFilter, delayNode, feedbackGain, wetGain,
                   oscillators, activeNodes, baseFrequencies, collisionTimer,
                   currentDissonanceMultiplier, built, started, edges, param,
                   timers, lastOp, calls, thrown, appVars>>

\* A tick or a click has played to its end: its source stops and the runtime
\* reclaims its nodes.
TransientEnds ==
    \E id \in TransientIds(Cur(1)) :
        LET gone(n) == Kind(n) \in TransientKinds /\ Owner(n) = id
        IN /\ started' = {n \in started : ~gone(n)}
           /\ edges' = {e \in edges : ~gone(e[1])}
           /\ param' = [n \in {x \in DOMAIN param : ~gone(x)} |-> param[n]]
           /\ UNCHANGED <<ctx, masterGain, globalFilter, delayNode, feedbackGain,
                          wetGain, oscillators, activeNodes, baseFrequencies,
                          collisionTimer, currentDissonanceMultiplier, ctxState,
                          built, resumePending, initDone, timers, lastOp, calls,
                          thrown, appVars>>

\* Inputs

\* Two records of src/constants.ts: the first (LOW) and the last (CRITICAL)
Locations == {Loc("LOW", 15, 41985), Loc("CRITICAL", 1250, 32553)}
Multipliers == {1000, 2000}
\* A volume other than the initial 0.5; the App's initial openness (App.tsx:18)
Volumes == {800}
Openness == {1000}

Next ==
    \/ Initialize
    \/ ResumeResolves
    \/ \E val \in Volumes : SetVolume(val)
    \/ \E v \in Openness : SetFilterFrequency(v)
    \/ \E m \in Multipliers : SetDissonance(m)
    \/ StopAll
    \/ \E location \in Locations : PlayData(location)
    \/ TimerDue
    \/ TimerFire
    \/ TransientEnds

Spec == Init /\ [][Next]_vars

\* The four severity tiers (src/types.ts), each at the density and latitude of the
\* first and of the last record of src/constants.ts, and multipliers from both
\* sides of 1.0: the slider's minimum and maximum
TierLocations ==
    {Loc(level, site[1], site[2]) : level \in {"LOW", "MODERATE", "HIGH", "CRITICAL"},
                                    site \in {<<15, 41985>>, <<1250, 32553>>}}
TierMultipliers == {500, 1000, 2500}

\* Sessions of every tier, with the dissonance control; no timeout comes due.
NextTiers ==
    \/ Initialize
    \/ ResumeResolves
    \/ \E m \in TierMultipliers : SetDissonance(m)
    \/ StopAll
    \/ \E location \in TierLocations : PlayData(location)
    \/ TransientEnds

SpecTiers == Init /\ [][NextTiers]_vars

\* The numeric mappings: the density of a LOW record over its range and beyond,
\* and the filter slider at every quarter.
Densities == {0, 1, 15, 500, 999, 1000, 1250}
Quarters == {0, 250, 500, 750, 1000}

NextNumeric ==
    \/ Initialize
    \/ ResumeResolves
    \/ \E density \in Densities : PlayData(Loc("LOW", density, 41985))
    \/ \E v \in Quarters : SetFilterFrequency(v)
    \/ TransientEnds

SpecNumeric == Init /\ [][NextNumeric]_vars

\* The dissonance slider at 1.5 and 2.5 over the sessions of two tiers, with the
\* random flux at its least (every draw 0), at its most (every draw 0.999) and mixed.
FluxTapes == {1, 2, 3}

SetDissonanceDrawing(multiplier, tape) ==
    Returns(setDissonance(Cur(tape), multiplier), "setDissonance")

NextFlux ==
    \/ Initialize
    \/ ResumeResolves
    \/ \E location \in Locations : PlayData(location)
    \/ \E m \in {1500, 2500}, tape \in FluxTapes : SetDissonanceDrawing(m, tape)
    \/ TransientEnds

SpecFlux == Init /\ [][NextFlux]_vars

\* The dissonance slider below, at and above 1.2 (its step is 0.1, its range 0.5
\* to 2.5; 1.201 stands for the least value above 1.2) over the sessions of two
\* tiers, with the draws at their least, at their most and mixed.
RateMultipliers == {500, 1000, 1200, 1201, 2500}

NextRates ==
    \/ Initialize
    \/ ResumeResolves
    \/ \E location \in Locations : PlayData(location)
    \/ \E m \in RateMultipliers, tape \in FluxTapes : SetDissonanceDrawing(m, tape)
    \/ TransientEnds

SpecRates == Init /\ [][NextRates]_vars

\* One record's sessions, started, stopped and replaced at will, on a runtime whose
\* timeouts come due and whose event loop runs the tasks that are due (and whose
\* transients, a few milliseconds long, end).
NextSession ==
    \/ Initialize
    \/ ResumeResolves
    \/ \E val \in Volumes : SetVolume(val)
    \/ StopAll
    \/ PlayData(Loc("LOW", 15, 41985))
    \/ TimerDue
    \/ TimerFire
    \/ TransientEnds

\* The task of a due timeout can run.
FireEnabled == (\E t \in timers : t.due) /\ Inflight + 1 <= MaxInflight

\* (the last conjunct is the weak fairness of TimerFire, stated by its guard: a
\* TimerFire step leaves no timeout due, so TimerFire is taken again and again
\* exactly when it is disabled again and again)
SpecSession ==
    /\ Init /\ [][NextSession]_vars
    /\ WF_vars(TimerDue) /\ WF_vars(TransientEnds)
    /\ []<>(~FireEnabled)

\* The engine on a runtime that may fail a call.

\* The calls that may throw: the name of the call, and which of the handler's calls
\* of that name it is
FaultPoints ==
    {<<"none", 0>>, <<"createDelay", 1>>, <<"gain.setTargetAtTime", 1>>,
     <<"tick.start", 1>>, <<"osc.start", 2>>, <<"click.start", 1>>}

\* Voice nodes that are still referenced by the graph or sounding while the engine
\* tracks them no more
Leaked ==
    {n \in Reachable(Cur(1)) : Kind(n) \in VoiceKinds}
        \ (Range(oscillators) \cup Range(activeNodes))
MayFail == Cardinality({Owner(n) : n \in Leaked}) < MaxLeaked

CurFault(tape, fault) == [Cur(tape) EXCEPT !.fault = fault]

InitializeFaulty ==
    \E fresh \in {"suspended", "running"}, fault \in FaultPoints :
        /\ fault[1] = "none" \/ MayFail
        /\ Returns(initialize(CurFault(1, fault), fresh), "initialize")

SetVolumeFaulty(val) ==
    \E fault \in FaultPoints :
        /\ fault[1] = "none" \/ MayFail
        /\ Returns(setVolume(CurFault(1, fault), val), "setVolume")

PlayDataFaulty(location) ==
    \E tape \in Tapes, fault \in FaultPoints :
        /\ fault[1] = "none" \/ MayFail
        /\ Inflight + 2 <= MaxInflight
        /\ Returns(playData(CurFault(tape, fault), location), "playData")

TimerFireFaulty ==
    \E t \in timers, tape \in Tapes, fault \in FaultPoints :
        /\ fault[1] = "none" \/ MayFail
        /\ t.due
        /\ Inflight + 1 <= MaxInflight
        /\ Returns(scheduleClick([CurFault(tape, fault) EXCEPT !.timers = @ \ {t}],
                                 t.normalized, t.interval),
                   "scheduleClick")

\* The sets of tracked nodes that may fail together: none, the first, all
FailSets ==
    LET tracked == oscillators \o activeNodes
    IN {{}} \cup (IF tracked = <<>> THEN {} ELSE {{tracked[1]}, Range(tracked)})

\* stopAll() with stop() throwing on some oscillators, or disconnect() on some nodes
StopAllFaulty ==
    \E fails \in FailSets, call \in {"stop", "disconnect"} :
        /\ fails = {} \/ MayFail
        /\ Returns(stopAll([Cur(1) EXCEPT
                               !.failStop = IF call = "stop" THEN fails ELSE {},
                               !.failDisc = IF call = "disconnect" THEN fails ELSE {}]),
                   "stopAll")

NextFaults ==
    \/ InitializeFaulty
    \/ ResumeResolves
    \/ \E val \in Volumes : SetVolumeFaulty(val)
    \/ StopAllFaulty
    \/ PlayDataFaulty(Loc("LOW", 15, 41985))
    \/ TimerDue
    \/ TimerFireFaulty
    \/ TransientEnds

SpecFaults == Init /\ [][NextFaults]_vars

\* Records whose level is one of the four of DebrisLevel, and records whose
\* level is none (the catalogue is data: a record read from a file can carry any
\* string), at the density and latitude of the first and of the last record
Levels == {"LOW", "MODERATE", "HIGH", "CRITICAL", "SEVERE", "critical", ""}
LevelLocations ==
    {Loc(level, site[1], site[2]) : level \in Levels,
                                    site \in {<<15, 41985>>, <<1250, 32553>>}}

NextLevels ==
    \/ Initialize
    \/ ResumeResolves
    \/ \E location \in LevelLocations : PlayData(location)
    \/ StopAll
    \/ TimerDue
    \/ TransientEnds

SpecLevels == Init /\ [][NextLevels]_vars

----------------------------------------------------------------------------
\* The App component                                   App.tsx:12-82
\* A handler of the component runs to its end (or to its first await) in one
\* step, on the state of the latest render.

\* handleStart, up to its await                        App.tsx:27-28
HandleStart ==
    /\ ~hasInteracted                     \* the start screen is shown (App.tsx:84)
    /\ \E fresh \in {"suspended", "running"} :
          Commit(Collect(Outcome(initialize(Cur(1), fresh))), "handleStart")
    /\ starting' = TRUE
    /\ UNCHANGED <<activeLocation, isPlaying, volume, filterValue, dissonanceValue,
                   hasInteracted>>

\* handleStart, after its await: initialize() has completed    App.tsx:29
StartCompletes ==
    /\ starting /\ ~resumePending
    /\ hasInteracted' = TRUE
    /\ starting' = FALSE
    /\ UNCHANGED <<ctx, masterGain, globalFilter, delayNode, feedbackGain, wetGain,
                   oscillators, activeNodes, baseFrequencies, collisionTimer,
                   currentDissonanceMultiplier, ctxState, built, started, edges,
                   param, resumePending, initDone, timers, lastOp, calls, thrown,
                   activeLocation, isPlaying, volume, filterValue, dissonanceValue>>

\* (a toggle that acts on the engine and leaves the flag as it is)
toggled_m(playing, location) == playing

\* App.tsx:59   setIsPlaying(!isPlaying)
toggled(playing, location) == ~playing

\* handleLocationSelect(location), up to its await     App.tsx:32-48
\* (the map that calls it is rendered once hasInteracted is set, App.tsx:84)
HandleLocationSelect(location) ==
    /\ hasInteracted
    /\ Inflight + 2 <= MaxInflight
    /\ \E tape \in Tapes :
          LET s  == Cur(tape)
              s1 == setFilterFrequency(s, filterValue)
              s2 == setDissonance(s1, dissonanceValue)
              s3 == playData(s2, location)
              s4 == setVolume(s3, volume)
          IN Commit(Collect(Outcome(IF hasInteracted THEN s4 ELSE s)),
                    "handleLocationSelect")
    /\ activeLocation' = location
    /\ isPlaying' = TRUE
    /\ UNCHANGED <<volume, filterValue, dissonanceValue, hasInteracted, starting>>

\* togglePlay                                          App.tsx:53-60
\* (the button that calls it is rendered when there is an active location,
\* Controls.tsx:54)
TogglePlay ==
    /\ hasInteracted /\ activeLocation # NoLocation
    /\ isPlaying \/ Inflight + 2 <= MaxInflight
    /\ \E tape \in Tapes :
          LET s == Cur(tape)
          IN Commit(Collect(Outcome(
                        IF isPlaying THEN stopAll(s)
                        ELSE IF activeLocation # NoLocation
                             THEN playData(s, activeLocation)
                             ELSE s)),
                    "togglePlay")
    /\ isPlaying' = toggled(isPlaying, activeLocation)
    /\ UNCHANGED <<activeLocation, volume, filterValue, dissonanceValue,
                   hasInteracted, starting>>

\* handleDissonanceChange(val)                         App.tsx:72-75
HandleDissonanceChange(val) ==
    /\ hasInteracted /\ activeLocation # NoLocation
    /\ \E tape \in Tapes :
          Commit(Collect(Outcome(setDissonance(Cur(tape), val))),
                 "handleDissonanceChange")
    /\ dissonanceValue' = val
    /\ UNCHANGED <<activeLocation, isPlaying, volume, filterValue, hasInteracted,
                   starting>>

\* The component on the engine: start, then selections, toggles and the
\* dissonance slider at will, while timeouts come due and fire and transients end.
NextApp ==
    \/ HandleStart
    \/ ResumeResolves
    \/ StartCompletes
    \/ \E location \in Locations : HandleLocationSelect(location)
    \/ TogglePlay
    \/ \E val \in Multipliers : HandleDissonanceChange(val)
    \/ TimerDue
    \/ TimerFire
    \/ TransientEnds

SpecApp == Init /\ [][NextApp]_vars

----------------------------------------------------------------------------
\* What the claims speak of

engineVars == <<ctx, masterGain, globalFilter, delayNode, feedbackGain, wetGain,
                oscillators, activeNodes, baseFrequencies, collisionTimer,
                currentDissonanceMultiplier>>
runtimeVars == <<ctxState, built, started, edges, param, resumePending, initDone,
                 timers>>

NoVoices == oscillators = <<>> /\ activeNodes = <<>> /\ baseFrequencies = <<>>
NoTimer == collisionTimer = 0 /\ timers = {}
\* No tone generator or modulator sounds, and no voice node is connected.
NoVoiceSounds == VoiceSessions(Cur(1)) = {}

CallsOf(ev) == {i \in 1..Len(calls) : calls[i].ev = ev}
\* The last handler was playData on an engine that has its graph.
Played == lastOp = "playData" /\ calls # <<>>
\* ... and a session was live when it was called.
Replaced == Played /\ calls[1].live # {}

\* The voice counts of the profile table (spec.md, section 3)
TableVoices(level) ==
    CASE level = "LOW" -> 3
      [] level = "MODERATE" -> 4
      [] level = "HIGH" -> 6
      [] level = "CRITICAL" -> 8
\* ... and its waveforms
TableWave(level) ==
    CASE level = "LOW" -> "sine"
      [] level = "MODERATE" -> "triangle"
      [] level = "HIGH" -> "sawtooth"
      [] level = "CRITICAL" -> "sawtooth"

\* The live voices, by position in the ensemble (0-based): the tone generator of
\* voice i is the second of the i-th pair of the oscillators array.
NVoices == Len(oscillators) \div 2
VoiceOsc(i) == oscillators[2 * i + 2]
VoiceLfo(i) == oscillators[2 * i + 1]

----------------------------------------------------------------------------
\* C1: after stopAll() returns there is no live voice (oscillators, activeNodes
\* and baseFrequencies are empty, nothing of a voice sounds or is connected) and no
\* pending collision timer (collisionTimer is null, no timeout is armed), whatever
\* the state it was called in; a stopAll() called again in that state changes
\* nothing of the engine or the runtime.
C1_StopAllLeavesNothing ==
    /\ [](lastOp = "stopAll" => NoVoices /\ NoTimer /\ NoVoiceSounds)
    /\ [][(lastOp = "stopAll" /\ StopAll) => UNCHANGED <<engineVars, runtimeVars>>]_vars

\* stopAll() has just ended a live session: it cancelled the timer and stopped voices.
C1_Witness ==
    /\ lastOp = "stopAll"
    /\ CallsOf("clearTimeout") # {}
    /\ CallsOf("stop") # {}

\* C2: in every reachable state at most one voice ensemble exists (the tracked
\* nodes, the sounding sources and the connected voice nodes all belong to one
\* session) and at most one timeout is armed, the one collisionTimer holds.
C2_OneEnsembleOneTimer ==
    /\ Cardinality(VoiceSessions(Cur(1))) <= 1
    /\ Cardinality(timers) <= 1
    /\ \A t \in timers : t.id = collisionTimer

\* A collision iteration has run while a session was live.
C2_Witness ==
    /\ lastOp = "scheduleClick"
    /\ oscillators # <<>>
    /\ timers # {}

\* C3: after playData(d2) called while the session of playData(d1) was live, the
\* tracked voices are exactly the ensemble built for d2: as many as d2's tier has,
\* all of the new session, and no voice node of the session of d1 is tracked,
\* sounds or is connected.
C3_SecondEnsembleOnly ==
    Replaced =>
        LET n    == TableVoices(calls[1].node[1])
            sess == Owner(oscillators[1])
        IN /\ Len(baseFrequencies) = n
           /\ Len(oscillators) = 2 * n
           /\ Len(activeNodes) = 3 * n
           /\ sess \notin calls[1].live
           /\ VoiceSessions(Cur(1)) = {sess}
           /\ {n2 \in started : Kind(n2) \in {"osc", "lfo"}} = Range(oscillators)

\* playData for a LOW record replaced a live session.
C3_Witness ==
    /\ Replaced
    /\ calls[1].node[1] = "LOW"
    /\ CallsOf("stop") # {}

\* C4: once stopAll() has been called, also at the instant the pending timeout is
\* due, no collision iteration runs, clicks or arms a timeout until the next
\* playData: no timeout is armed after stopAll(), and while none is armed every
\* step but playData leaves none armed and is no collision iteration.
C4_NoIterationAfterStop ==
    /\ [](lastOp = "stopAll" => NoTimer)
    /\ [][(NoTimer /\ lastOp' # "playData") =>
             /\ NoTimer'
             /\ lastOp' # "scheduleClick"
             /\ calls' # calls =>
                   \A i \in 1..Len(calls') : calls'[i].ev \notin {"click.start", "setTimeout"}
          ]_vars

\* stopAll() cancelled a timeout that was due.
C4_Witness ==
    /\ lastOp = "stopAll"
    /\ \E i \in CallsOf("clearTimeout") : calls[i].value = 1

\* The control operations, as steps
ControlOp ==
    \/ StopAll
    \/ \E val \in Volumes : SetVolume(val)
    \/ \E v \in Openness : SetFilterFrequency(v)
    \/ \E m \in Multipliers : SetDissonance(m)
    \/ \E location \in Locations : PlayData(location)

\* The targets of the master gain and of the spectral filter (-1: no such node)
GainTarget == IF masterGain \in DOMAIN param THEN param[masterGain].gain ELSE -1
FilterTarget == IF globalFilter \in DOMAIN param THEN param[globalFilter].frequency ELSE -1

\* C5, as stated: a control operation invoked before an initialize() call has
\* completed (none was made yet, or its resume is still awaited) leaves the voice
\* set, the collision timer, the stored dissonance multiplier and the gain and
\* filter targets as they were.
C5_NoOpBeforeInitCompletes ==
    [][(~initDone /\ ControlOp) =>
          UNCHANGED <<oscillators, activeNodes, baseFrequencies, collisionTimer,
                      timers, currentDissonanceMultiplier, GainTarget, FilterTarget>>
      ]_vars

\* C5, amended: a control operation invoked before initialize() was first called
\* issues no call to the runtime and leaves the voice set, the collision timer, the
\* graph and the runtime as they were; only setDissonance changes anything: it
\* stores its multiplier.
C5_NoOpBeforeFirstInitialize ==
    [][(ctx = 0 /\ ControlOp) =>
          /\ UNCHANGED <<ctx, masterGain, globalFilter, delayNode, feedbackGain,
                         wetGain, oscillators, activeNodes, baseFrequencies,
                         collisionTimer, runtimeVars>>
          /\ calls' = <<>>
          /\ currentDissonanceMultiplier' # currentDissonanceMultiplier =>
                lastOp' = "setDissonance"
      ]_vars

\* setDissonance(2.0) was called before any initialize(), and stored 2.0.
C5_Witness ==
    /\ ctx = 0
    /\ lastOp = "setDissonance"
    /\ currentDissonanceMultiplier = 2000

\* The steps of playData, by the runtime calls that make them
Phase(ev) ==
    CASE ev = "playData" -> 0
      [] ev \in {"clearTimeout", "stop", "disconnect"} -> 1
      [] ev = "tick.start" -> 2
      [] ev \in {"lfo.start", "osc.start"} -> 3
      [] ev \in {"detune.setTargetAtTime", "lfo.frequency.setTargetAtTime"} -> 4
      [] ev \in {"clickFilter.frequency", "clickPanner.pan", "click.start",
                 "setTimeout"} -> 5
Sounds == {"tick.start", "lfo.start", "osc.start", "click.start"}

\* C6: a playData call on an engine with its graph issues its runtime calls in the
\* order: release of the old voices and timer, the tick, the voices, the detune
\* pass, the scheduler (one click, then one timeout, the last call); and whenever it
\* starts a sound no timeout is armed and no voice of the session it replaces sounds.
C6_PlayDataOrder ==
    Played =>
        /\ \A i, j \in 1..Len(calls) : i < j => Phase(calls[i].ev) <= Phase(calls[j].ev)
        /\ Cardinality(CallsOf("tick.start")) = 1
        /\ Cardinality(CallsOf("osc.start")) = TableVoices(calls[1].node[1])
        /\ Cardinality(CallsOf("click.start")) = 1
        /\ CallsOf("setTimeout") = {Len(calls)}
        /\ \A i \in 1..Len(calls) :
              calls[i].ev \in Sounds =>
                 /\ calls[i].armed = 0
                 /\ calls[i].live \cap calls[1].live = {}

\* playData replaced a live session whose timeout was armed, with a multiplier
\* other than 1.0 stored: all five steps took place.
C6_Witness ==
    /\ Replaced
    /\ calls[1].armed = 1
    /\ CallsOf("detune.setTargetAtTime") # {}

\* C10: at most one AudioContext is ever constructed; once the graph exists its
\* context and nodes are never replaced or nulled and none of its connections is
\* removed, whatever runs; and an initialize() on an engine that has its graph
\* changes nothing of the engine and the runtime but the pending resume.
PersistentEdges ==
    {<<globalFilter, masterGain>>, <<globalFilter, delayNode>>, <<delayNode, wetGain>>,
     <<wetGain, masterGain>>, <<delayNode, feedbackGain>>, <<feedbackGain, delayNode>>,
     <<masterGain, Destination>>}
graphVars == <<ctx, masterGain, globalFilter, delayNode, feedbackGain, wetGain>>
C10_GraphBuiltOnce ==
    /\ [](built <= 1)
    /\ [](ctx # 0 => /\ NULL \notin {masterGain, globalFilter, delayNode,
                                    feedbackGain, wetGain}
                     /\ PersistentEdges \subseteq edges)
    /\ [][ctx # 0 => UNCHANGED <<graphVars, built>>]_vars
    /\ [][(ctx # 0 /\ Initialize) =>
             UNCHANGED <<engineVars, ctxState, built, started, edges, param, timers>>
          ]_vars

\* initialize() was called again, with a session live and the context still
\* suspended: it asked for a resume once more.
C10_Witness ==
    /\ lastOp = "initialize"
    /\ calls # <<>> /\ calls[1].ev = "resume"
    /\ oscillators # <<>>
    /\ built = 1

----------------------------------------------------------------------------
\* C7: playData on an engine with its graph leaves exactly the table's number of
\* voices for the tier (3, 4, 6, 8), each with its tone generator and modulator
\* started, whatever the density, the latitude and the stored multiplier.
C7_VoiceCount ==
    Played =>
        LET n == TableVoices(calls[1].node[1])
        IN /\ Len(baseFrequencies) = n
           /\ NVoices = n /\ Len(oscillators) = 2 * n
           /\ Cardinality(CallsOf("osc.start")) = n
           /\ \A i \in 0..(n - 1) :
                 /\ Kind(VoiceOsc(i)) = "osc" /\ VoiceOsc(i) \in started
                 /\ Kind(VoiceLfo(i)) = "lfo" /\ VoiceLfo(i) \in started

\* A HIGH session was started with the multiplier at the slider's maximum.
C7_Witness ==
    /\ Played
    /\ calls[1].node[1] = "HIGH" /\ calls[1].node[2] = 1250
    /\ currentDissonanceMultiplier = 2500

\* C8, as stated: of the n voices playData creates, exactly floor(n/2) have the
\* profile waveform and the remaining n - floor(n/2) have sine.
C8_HalfRoundedDown ==
    Played =>
        LET wave == TableWave(calls[1].node[1])
            withProfile == {i \in 0..(NVoices - 1) : param[VoiceOsc(i)].type = wave}
        IN /\ Cardinality(withProfile) = NVoices \div 2
           /\ \A i \in (0..(NVoices - 1)) \ withProfile : param[VoiceOsc(i)].type = "sine"

\* C8, amended: of the n voices playData creates, the even-indexed ones, which are
\* n - floor(n/2), are assigned the profile waveform and the odd-indexed ones, which
\* are floor(n/2), are assigned sine.
C8_EvenProfileOddSine ==
    Played =>
        LET wave == TableWave(calls[1].node[1])
            even == {i \in 0..(NVoices - 1) : i % 2 = 0}
            odd  == {i \in 0..(NVoices - 1) : i % 2 = 1}
        IN /\ Cardinality(even) = NVoices - NVoices \div 2
           /\ Cardinality(odd) = NVoices \div 2
           /\ \A i \in even : param[VoiceOsc(i)].type = wave
           /\ \A i \in odd : param[VoiceOsc(i)].type = "sine"

\* A MODERATE session: two triangle voices, two sine voices.
C8_Witness ==
    /\ Played
    /\ calls[1].node[1] = "MODERATE"
    /\ param[VoiceOsc(0)].type = "triangle" /\ param[VoiceOsc(1)].type = "sine"

\* C9: when setDissonance(1.0) returns with a session live, it has set the detune
\* target of every live voice, and that target is 0, whatever was set before.
C9_DetuneBackToZero ==
    (lastOp = "setDissonance" /\ currentDissonanceMultiplier = 1000 /\ NVoices > 0) =>
        /\ \A i \in 0..(NVoices - 1) : param[VoiceOsc(i)].detune = 0
        /\ {calls[c].node : c \in CallsOf("detune.setTargetAtTime")}
              = {VoiceOsc(i) : i \in 0..(NVoices - 1)}
        /\ \A c \in CallsOf("detune.setTargetAtTime") : calls[c].value = 0

\* setDissonance(1.0) on a LOW session whose modulators run at 0.5 Hz and more:
\* a LOW session's own rates are below 0.05 Hz, so a multiplier above 1.2 was
\* applied to it before.
C9_Witness ==
    /\ lastOp = "setDissonance" /\ currentDissonanceMultiplier = 1000
    /\ NVoices = 3
    /\ param[VoiceLfo(0)].frequency >= 500
    /\ param[VoiceOsc(2)].detune = 0

----------------------------------------------------------------------------
\* The nodes of voices and of transients that feed the persistent graph
Feeding(kinds) == {e[1] : e \in {x \in edges : Kind(x[1]) \in kinds}}

\* C11: after stopAll() returns, no voice node and no tick or click node that was
\* playing when it was called is still connected to the persistent graph.
C11_TransientsReleased ==
    lastOp = "stopAll" =>
        /\ Feeding(VoiceKinds) = {}
        /\ Feeding(TransientKinds) = {}

----------------------------------------------------------------------------
\* C12: no operation and no timer callback lets an error out: whatever call into
\* the runtime fails, the handler returns normally.
C12_NoErrorSurfaces == thrown = "none"

\* C13: when stop() or disconnect() throws on some of the tracked nodes during
\* stopAll(), stopAll() lets no error out, has called stop() on every tracked
\* oscillator and disconnect() on every tracked node of activeNodes, and leaves no
\* voice tracked and no timeout pending.
C13_StopAllSwallows ==
    [][lastOp' = "stopAll" =>
          /\ thrown' = "none"
          /\ NoVoices' /\ NoTimer'
          /\ ~NoVoices =>
                /\ {calls'[i].node : i \in {j \in 1..Len(calls') : calls'[j].ev = "stop"}}
                      = Range(oscillators)
                /\ Range(activeNodes)
                      \subseteq {calls'[i].node :
                                   i \in {j \in 1..Len(calls') :
                                             calls'[j].ev = "disconnect"}}
      ]_vars

\* stopAll() returned with stop() having thrown on the first oscillator: that one
\* still sounds, a later one was stopped all the same.
C13_Witness ==
    /\ lastOp = "stopAll" /\ thrown = "none"
    /\ NoVoices /\ NoTimer
    /\ \E i, j \in CallsOf("stop") :
          /\ i < j
          /\ calls[i].node \in started
          /\ calls[j].node \notin started

----------------------------------------------------------------------------
\* The timeout that playData armed, the density it was called with, and the base
\* interval of its scheduler in microseconds
ArmedTimer == CHOOSE t \in timers : TRUE
PlayedDensity == calls[1].node[2]

FilterInput == calls[1].node[1]
Filtered == lastOp = "setFilterFrequency" /\ calls # <<>>

\* C15: on an engine with its graph setFilterFrequency(0) sets the cutoff target to
\* 100 Hz and setFilterFrequency(1) to 20000 Hz; and of two calls, one after the
\* other, the one with the lower input sets the strictly lower target.
C15_CutoffIncreasing ==
    /\ [](Filtered =>
            /\ FilterInput = 0 => FilterTarget = 100
            /\ FilterInput = 1000 => FilterTarget = 20000)
    /\ [][(Filtered /\ Filtered') =>
             /\ FilterInput < FilterInput' => FilterTarget < FilterTarget'
             /\ FilterInput > FilterInput' => FilterTarget > FilterTarget'
          ]_vars

\* setFilterFrequency(0) closed the filter to 100 Hz with a session live.
C15_Witness ==
    /\ Filtered
    /\ FilterInput = 0 /\ FilterTarget = 100
    /\ NVoices > 0

Abs(x) == IF x < 0 THEN -x ELSE x

\* C16: when setDissonance passes from 1.5 to 2.5 or from 2.5 to 1.5 over the same
\* live ensemble, every voice's detune target under 2.5 is strictly larger in
\* magnitude than its target under 1.5, whatever the random draws of the two passes.
C16_DetuneGrows ==
    [][(/\ lastOp' = "setDissonance"
        /\ NVoices > 0 /\ oscillators' = oscillators
        /\ {currentDissonanceMultiplier, currentDissonanceMultiplier'} = {1500, 2500}) =>
          \A i \in 0..(NVoices - 1) :
             LET before == Abs(param[VoiceOsc(i)].detune)
                 after  == Abs(param'[VoiceOsc(i)].detune)
             IN IF currentDissonanceMultiplier' = 2500
                THEN after > before
                ELSE after < before
      ]_vars

\* setDissonance(2.5) ran over a session with every draw 0: voice 0 has the least
\* target 2.5 can give it, 15 cents times the intensity.
C16_Witness ==
    /\ lastOp = "setDissonance"
    /\ currentDissonanceMultiplier = 2500
    /\ NVoices = 3
    /\ param[VoiceOsc(0)].detune = 15 * Intensity(2500)

----------------------------------------------------------------------------
\* A stopAll or a playData is called in this step.
Interrupted == lastOp' \in {"stopAll", "playData"} /\ calls' # calls
TimeoutDue == \E t \in timers : t.due

\* C17: while neither stopAll nor playData is called, the voices of a session stay
\* tracked and sounding and a timeout stays armed; and, timeouts coming due and due
\* tasks being run, each armed timeout of a live session comes due and each due one
\* has its click emitted and the next timeout armed, unless the session is stopped
\* or replaced first: the clicks never end on their own.
C17_SessionRunsOn ==
    /\ [][(NVoices > 0 /\ ~Interrupted) =>
             /\ oscillators' = oscillators
             /\ Range(oscillators) \subseteq started'
             /\ timers' # {}
          ]_vars
    /\ (NVoices > 0 /\ ~TimeoutDue) ~> (TimeoutDue \/ NVoices = 0)
    /\ TimeoutDue ~> \/ lastOp = "scheduleClick" /\ timers # {} /\ ~TimeoutDue
                     \/ lastOp = "playData" /\ ~TimeoutDue
                     \/ timers = {}

\* The loop has gone round: a click was emitted by the timer callback, and the
\* timeout it armed is due in its turn.
C17_Witness ==
    /\ lastOp = "scheduleClick"
    /\ NVoices > 0
    /\ TimeoutDue


----------------------------------------------------------------------------
\* The voices of the ensemble whose tone generator has waveform w
VoicesOfWave(w) == {i \in 0..(NVoices - 1) : param[VoiceOsc(i)].type = w}

\* C18: in the ensemble playData builds, voice i has the tier's profile waveform
\* when i is even and sine when i is odd, and with that at least half of the
\* voices of the ensemble are sine, for each of the four tiers.
C18_AtLeastHalfSine ==
    Played =>
        LET level == calls[1].node[1]
        IN /\ NVoices = TableVoices(level)
           /\ \A i \in 0..(NVoices - 1) :
                 param[VoiceOsc(i)].type =
                    IF i % 2 = 0 THEN TableWave(level) ELSE "sine"
           /\ 2 * Cardinality(VoicesOfWave("sine")) >= NVoices

\* A CRITICAL session: eight voices, sawtooth and sine in turn, four of each.
C18_Witness ==
    /\ Played
    /\ calls[1].node[1] = "CRITICAL" /\ NVoices = 8
    /\ VoicesOfWave("sawtooth") = {0, 2, 4, 6}
    /\ VoicesOfWave("sine") = {1, 3, 5, 7}


----------------------------------------------------------------------------
\* The tracked voice state of a world, and what the runtime holds of transients
Tracked(s) ==
    <<s.oscillators, s.activeNodes, s.baseFrequencies, s.currentDissonanceMultiplier>>
TransientPart(s) ==
    <<{n \in s.started : Kind(n) \in TransientKinds},
      {e \in s.edges : Kind(e[1]) \in TransientKinds}>>
\* The intensities startMicroCollisions passes to playClick for the densities of
\* the catalogue's first and last record
ClickIntensities == {Normalized(location.density) : location \in Locations}

\* C19: a tick or a click adds nothing to the tracked voice state (oscillators,
\* activeNodes, baseFrequencies and the stored multiplier are, after
\* playTelemetrySound and after playClick, what they were before, and so they are
\* over a step of the collision scheduler), and stopAll never stops or
\* disconnects a node of a transient: no tracked node is one, every stop() and
\* disconnect() is issued on a voice node, and the sources and connections of the
\* transients in flight are after stopAll what they were before.
C19_TransientsUntracked ==
    /\ [](LET s == Cur(1)
          IN /\ Tracked(playTelemetrySound(s)) = Tracked(s)
             /\ \A n \in ClickIntensities : Tracked(playClick(s, n)) = Tracked(s)
             /\ TransientPart(stopAll(s)) = TransientPart(s)
             /\ \A n \in Range(oscillators) \cup Range(activeNodes) :
                   Kind(n) \in VoiceKinds
             /\ \A c \in CallsOf("stop") \cup CallsOf("disconnect") :
                   Kind(calls[c].node) \in VoiceKinds)
    /\ [][lastOp' = "scheduleClick" =>
             UNCHANGED <<oscillators, activeNodes, baseFrequencies,
                         currentDissonanceMultiplier>>]_vars

\* stopAll has stopped the voices of a session while a tick and a click were in
\* flight, and both still sound.
C19_Witness ==
    /\ lastOp = "stopAll" /\ CallsOf("stop") # {}
    /\ \E n \in started : Kind(n) = "tickNoise"
    /\ \E n \in started : Kind(n) = "clickNoise"
    /\ \E e \in edges : Kind(e[1]) = "clickPanner"


----------------------------------------------------------------------------
\* The calls by which playData starts the collision scheduler
SchedulerCalls ==
    CallsOf("clickFilter.frequency") \cup CallsOf("clickPanner.pan")
       \cup CallsOf("click.start") \cup CallsOf("setTimeout")

\* C20: playData runs the detuning pass over the ensemble it has built exactly
\* when the stored multiplier is not 1.0. When it runs, it sets the detune of
\* every new voice, once, after the last voice is built and before the collision
\* scheduler starts; when the multiplier is 1.0, no detune and no modulator rate
\* is set on the new voices.
C20_ReapplyIffNotOne ==
    Played =>
        LET detunes == CallsOf("detune.setTargetAtTime")
            rates   == CallsOf("lfo.frequency.setTargetAtTime")
        IN /\ (detunes # {}) <=> (currentDissonanceMultiplier # 1000)
           /\ currentDissonanceMultiplier # 1000 =>
                 /\ {calls[c].node : c \in detunes}
                       = {VoiceOsc(i) : i \in 0..(NVoices - 1)}
                 /\ Cardinality(detunes) = NVoices
                 /\ \A c \in detunes :
                       /\ \A b \in CallsOf("osc.start") \cup CallsOf("lfo.start") : b < c
                       /\ \A a \in SchedulerCalls : c < a
                 /\ \A c \in rates :
                       /\ \E i \in 0..(NVoices - 1) : calls[c].node = VoiceLfo(i)
                       /\ \A a \in SchedulerCalls : c < a
           /\ currentDissonanceMultiplier = 1000 =>
                 /\ rates = {}
                 /\ \A i \in 0..(NVoices - 1) : param[VoiceOsc(i)].detune = 0
           /\ SchedulerCalls # {}

\* A MODERATE session was started with the multiplier at 0.5: its four voices
\* were detuned downwards before the first click.
C20_Witness ==
    /\ Played
    /\ calls[1].node[1] = "MODERATE" /\ currentDissonanceMultiplier = 500
    /\ Cardinality(CallsOf("detune.setTargetAtTime")) = 4
    /\ \A i \in 0..3 : param[VoiceOsc(i)].detune < 0
    /\ CallsOf("click.start") # {}


----------------------------------------------------------------------------
\* What a handler has left as it found it but for the settings of one node: the
\* engine's fields, the nodes that exist, what sounds, the connections, the
\* timeouts, and the settings of every other node.
SameBut(z, s, node) ==
    /\ \A f \in {"ctx", "masterGain", "globalFilter", "delayNode", "feedbackGain",
                 "wetGain", "oscillators", "activeNodes", "baseFrequencies",
                 "collisionTimer", "currentDissonanceMultiplier", "ctxState",
                 "built", "started", "edges", "timers", "resumePending",
                 "initDone"} : z[f] = s[f]
    /\ DOMAIN z.param = DOMAIN s.param
    /\ \A n \in DOMAIN s.param : n # node => z.param[n] = s.param[n]
\* The settings of the nodes of the voices
VoiceParams == [n \in {x \in DOMAIN param : Kind(x) \in VoiceKinds} |-> param[n]]

\* C21: setVolume changes nothing but the target of the master gain, and
\* setFilterFrequency nothing but the target of the filter cutoff: neither creates
\* a node, and each leaves the voice set, the frequency, detune, gain and
\* modulator rate of every voice, the collision timer and the stored multiplier
\* as they were; the one call each makes to the runtime is on its own node.
C21_ControlsFrame ==
    /\ [](LET s == Cur(1)
          IN /\ \A val \in Volumes \cup {0, 500, 1000} :
                   LET z == setVolume(s, val)
                   IN /\ SameBut(z, s, s.masterGain)
                      /\ \A c \in 1..Len(z.calls) :
                            /\ z.calls[c].ev = "gain.setTargetAtTime"
                            /\ z.calls[c].node = s.masterGain
             /\ \A v \in Quarters :
                   LET z == setFilterFrequency(s, v)
                   IN /\ SameBut(z, s, s.globalFilter)
                      /\ \A c \in 1..Len(z.calls) :
                            \/ z.calls[c].ev = "setFilterFrequency"
                            \/ /\ z.calls[c].ev = "frequency.setTargetAtTime"
                               /\ z.calls[c].node = s.globalFilter)
    /\ [][(lastOp' \in {"setVolume", "setFilterFrequency"} /\ lastOp' # lastOp) =>
             /\ UNCHANGED <<engineVars, VoiceParams, started, edges, timers, built>>
             /\ DOMAIN param' = DOMAIN param
         ]_vars

\* With a CRITICAL session live, detuned for a multiplier of 2.0, and its timeout
\* armed, the volume was set to 0.8.
C21_Witness ==
    /\ lastOp = "setVolume" /\ GainTarget = 800
    /\ CallsOf("gain.setTargetAtTime") # {}
    /\ NVoices = 8 /\ timers # {}
    /\ currentDissonanceMultiplier = 2000
    /\ param[VoiceOsc(7)].detune # 0


----------------------------------------------------------------------------
\* The modulator rates of the live voices, by voice
LfoRates == [i \in 0..(NVoices - 1) |-> param[VoiceLfo(i)].frequency]

\* C22: over a setDissonance(m) on a live session, with m at most 1.2 (1.2
\* included) the modulator rate of every live voice stays what it was and no rate
\* is set, so that a rate an earlier call with m above 1.2 randomized is kept;
\* with m above 1.2 the modulator of every live voice is set one new rate target,
\* which is at least 0.5 and less than 0.5 + 8 * (m - 1).
C22_RateThreshold ==
    [][(lastOp' = "setDissonance" /\ NVoices > 0 /\ oscillators' = oscillators) =>
          LET m     == currentDissonanceMultiplier'
              rates == {c \in 1..Len(calls') :
                           calls'[c].ev = "lfo.frequency.setTargetAtTime"}
          IN IF m <= 1200
             THEN /\ rates = {}
                  /\ LfoRates' = LfoRates
             ELSE /\ Cardinality(rates) = NVoices
                  /\ \A i \in 0..(NVoices - 1) :
                        \E c \in rates :
                           /\ calls'[c].node = VoiceLfo(i)
                           /\ calls'[c].value = param'[VoiceLfo(i)].frequency
                           /\ calls'[c].value >= 500
                           /\ calls'[c].value < 500 + 8 * (m - 1000)
      ]_vars

\* setDissonance(1.2) has run over a LOW session whose modulators run at 0.5 Hz
\* and more: a LOW session's own rates are below 0.05 Hz, so these were set by a
\* call with a multiplier above 1.2, and 1.2 has kept them.
C22_Witness ==
    /\ lastOp = "setDissonance" /\ currentDissonanceMultiplier = 1200
    /\ CallsOf("detune.setTargetAtTime") # {}
    /\ NVoices = 3
    /\ \A i \in 0..2 : param[VoiceLfo(i)].frequency >= 500


----------------------------------------------------------------------------
\* A delay is at least half of the base interval and less than one and a half
\* times it (delay in microseconds, interval as the scheduler holds it).
InJitterRange(delay, interval) ==
    /\ delay >= (interval \div 1000) * 500
    /\ delay < (interval \div 1000) * 1500
\* The handler that returned last was one iteration of the scheduler, for clamped
\* density normalized and base interval interval: it emitted one click, of that
\* intensity, and then armed one timeout, in the jitter range, which is the one
\* timeout armed now and the one the engine holds.
OneIteration(normalized, interval) ==
    /\ Cardinality(CallsOf("click.start")) = 1
    /\ Cardinality(CallsOf("setTimeout")) = 1
    /\ \A c \in CallsOf("click.start"), a \in CallsOf("setTimeout") :
          /\ calls[c].value = normalized
          /\ c < a
          /\ InJitterRange(calls[a].value, interval)
    /\ Cardinality(timers) = 1
    /\ \A t \in timers :
          /\ t.id = collisionTimer
          /\ t.normalized = normalized /\ t.interval = interval

\* C23: each iteration of the collision scheduler emits exactly one click, whose
\* intensity is the clamped density / 1000 of the session, and then arms exactly
\* one timeout, whose delay is at least 0.5 and less than 1.5 times the base
\* interval. The first iteration runs inside playData: when playData returns, one
\* click was emitted and one timeout is armed. Every later iteration is the task
\* of the timeout the one before it armed, and hands the session's intensity and
\* base interval on to the next.
C23_OneClickOneTimeout ==
    /\ [](Played =>
             OneIteration(Normalized(PlayedDensity), BaseInterval(PlayedDensity)))
    /\ [](\A t \in timers, r \in {0, 333, 666, 999} :
             InJitterRange(NextTime(t.interval, r), t.interval))
    /\ [][(lastOp' = "scheduleClick" /\ TimeoutDue /\ ~TimeoutDue') =>
             \E t \in timers :
                /\ t.due
                /\ OneIteration(t.normalized, t.interval)'
                /\ Inflight' = Inflight + 1
         ]_vars

\* The second iteration of a session of density 1250 has run: a click of intensity
\* 1 (the clamp) and a timeout of 0.5 to 1.5 times 83 ms.
C23_Witness ==
    /\ lastOp = "scheduleClick" /\ NVoices = 8
    /\ \E c \in CallsOf("click.start") : calls[c].value = 1000
    /\ \E a \in CallsOf("setTimeout") :
          /\ calls[a].value >= 41500 /\ calls[a].value < 124500
    /\ \E t \in timers : ~t.due /\ t.interval = 83333


----------------------------------------------------------------------------
\* A voice ensemble is live: voices are tracked, and their sources sound.
EnsembleLive == NVoices > 0 /\ Range(oscillators) \subseteq started
\* A collision timeout is armed, and the engine holds its handle.
TimeoutArmed == timers # {} /\ collisionTimer # 0

\* C24: on an engine that has its graph, in every state between handlers a voice
\* ensemble is live exactly when a collision timeout is armed: playData leaves
\* both, stopAll leaves neither (no voice tracked or sounding, no timeout, no
\* handle), and the task of a timeout finds both and leaves both.
C24_EnsembleIffTimeout ==
    /\ [](ctx # 0 =>
             /\ EnsembleLive <=> TimeoutArmed
             /\ NVoices > 0 <=> timers # {}
             /\ timers # {} <=> collisionTimer # 0
             /\ Played => EnsembleLive /\ TimeoutArmed
             /\ lastOp = "stopAll" => NoVoices /\ NoVoiceSounds /\ NoTimer)
    /\ [][(lastOp' = "scheduleClick" /\ TimeoutDue /\ ~TimeoutDue') =>
             /\ EnsembleLive /\ TimeoutArmed
             /\ EnsembleLive' /\ TimeoutArmed'
             /\ oscillators' = oscillators
         ]_vars

\* The task of a timeout has run over a LOW session: the three voices sound as
\* before, and the timeout the task armed is the engine's.
C24_Witness ==
    /\ lastOp = "scheduleClick" /\ ctx # 0
    /\ NVoices = 3 /\ EnsembleLive
    /\ Cardinality(timers) = 1 /\ TimeoutArmed


----------------------------------------------------------------------------
\* The record the live session was started for (the records of Locations differ
\* in their number of voices), and its density
SessionLocation ==
    CHOOSE location \in Locations : Profile(location.level).oscillatorCount = NVoices
SessionDensity == SessionLocation.density

\* C25: once playData(d2) has replaced the session of playData(d1), every click
\* has the intensity, and every timeout the base interval, of the density of d2:
\* playData cancels the timeout of the session it replaces, due or not, before it
\* arms its own, so that while a session is live every pending callback is one
\* that captured the density of that session, and every click a handler emitted
\* and every timeout it armed are of that density.
C25_OnlyNewDensity ==
    /\ [](NVoices > 0 =>
             /\ \A t \in timers :
                   /\ t.normalized = Normalized(SessionDensity)
                   /\ t.interval = BaseInterval(SessionDensity)
             /\ lastOp \in {"playData", "scheduleClick"} =>
                   /\ \A c \in CallsOf("click.start") :
                         calls[c].value = Normalized(SessionDensity)
                   /\ \A a \in CallsOf("setTimeout") :
                         InJitterRange(calls[a].value, BaseInterval(SessionDensity)))
    /\ [](Replaced =>
             /\ PlayedDensity = SessionDensity
             /\ Cardinality(CallsOf("clearTimeout")) = 1
             /\ \A c \in CallsOf("clearTimeout") :
                   /\ calls[c].armed = 1
                   /\ \A a \in CallsOf("click.start") \cup CallsOf("setTimeout") : c < a
                   /\ calls[c + 1].armed = 0)
    /\ [][(NVoices > 0 /\ lastOp' = "playData" /\ calls' # <<>>
              /\ SessionDensity' # SessionDensity) =>
             \A t \in timers :
                \A u \in timers' : u.normalized # t.normalized /\ u.interval # t.interval
         ]_vars

\* A session of density 1250 has replaced a live session at the instant the
\* timeout of that one was due: the timeout was cancelled, and the one armed now
\* has the base interval of 1250.
C25_Witness ==
    /\ Replaced /\ PlayedDensity = 1250
    /\ \E c \in CallsOf("clearTimeout") : calls[c].value = 1
    /\ \A t \in timers : t.interval = 83333 /\ t.normalized = 1000
    /\ timers # {}


----------------------------------------------------------------------------
\* The values Math.random() takes in the model
DrawValues == {Draw(t, k) : t \in 1..3, k \in 0..3}
\* The detune targets a pass with multiplier m can set on voice i
DetunesOf(m, i) == {DetuneTarget(m, i, r) : r \in DrawValues}

\* C26: while voices are live, the detune of every voice of the ensemble is one
\* that a pass with the stored multiplier sets on that voice (0, when the stored
\* multiplier is 1.0, be it by a pass or, no pass having run since the voice was
\* built, by construction); and when setDissonance or playData has run a pass, it
\* was over exactly the live voices, with the stored multiplier, and set what the
\* voices have. No sequence of setDissonance, playData and stopAll leaves a live
\* voice with the detune of another multiplier.
C26_DetuneOfStored ==
    NVoices > 0 =>
        /\ \A i \in 0..(NVoices - 1) :
              /\ param[VoiceOsc(i)].detune \in DetunesOf(currentDissonanceMultiplier, i)
              /\ \A m \in TierMultipliers \ {currentDissonanceMultiplier} :
                    param[VoiceOsc(i)].detune \notin DetunesOf(m, i)
              /\ currentDissonanceMultiplier = 1000 => param[VoiceOsc(i)].detune = 0
        /\ (lastOp \in {"setDissonance", "playData"}
               /\ CallsOf("detune.setTargetAtTime") # {}) =>
              /\ Cardinality(CallsOf("detune.setTargetAtTime")) = NVoices
              /\ \A i \in 0..(NVoices - 1) :
                    \E c \in CallsOf("detune.setTargetAtTime") :
                       /\ calls[c].node = VoiceOsc(i)
                       /\ calls[c].value = param[VoiceOsc(i)].detune
        /\ (lastOp = "playData" /\ CallsOf("detune.setTargetAtTime") = {}) =>
              currentDissonanceMultiplier = 1000

\* A HIGH session was started with 2.5 stored: playData has detuned its six
\* voices upwards, the last by more than 700 cents.
C26_Witness ==
    /\ Played /\ NVoices = 6
    /\ currentDissonanceMultiplier = 2500
    /\ param[VoiceOsc(5)].detune \in DetunesOf(2500, 5)
    /\ param[VoiceOsc(5)].detune > 700000


----------------------------------------------------------------------------
\* The frequencies playData can give voice i of a session for level and lat when
\* the multiplier m is stored
FreqsOf(level, lat, m, i) ==
    {VoiceFreq(BaseFreq(lat), i, Profile(level).inherentDissonance, m, r) :
        r \in DrawValues}

\* C27: setDissonance(m) stores m whatever the state of the engine; when the
\* engine has no context or no live voice it does nothing else: it makes no call
\* to the runtime and changes no node. playData leaves the stored multiplier as
\* it is and uses it: the frequency of each voice it builds has the variance of
\* the profile's inherent dissonance times the stored multiplier, and, the
\* stored multiplier not being 1.0, each voice is detuned for it.
C27_StoredThenUsed ==
    /\ [](\A m \in TierMultipliers :
             LET s == Cur(1)
                 z == setDissonance(s, m)
             IN /\ z.currentDissonanceMultiplier = m
                /\ (ctx = 0 \/ NVoices = 0) =>
                      /\ z.calls = <<>>
                      /\ z = [s EXCEPT !.currentDissonanceMultiplier = m])
    /\ [](lastOp = "setDissonance" =>
             /\ currentDissonanceMultiplier \in TierMultipliers
             /\ NVoices = 0 => calls = <<>>)
    /\ [](Played =>
             LET level == calls[1].node[1]
                 lat   == calls[1].node[3]
                 m     == currentDissonanceMultiplier
             IN \A i \in 0..(NVoices - 1) :
                   /\ baseFrequencies[i + 1] \in FreqsOf(level, lat, m, i)
                   /\ param[VoiceOsc(i)].frequency = baseFrequencies[i + 1]
                   /\ m # 1000 =>
                         /\ param[VoiceOsc(i)].detune \in DetunesOf(m, i)
                         /\ \E c \in CallsOf("detune.setTargetAtTime") :
                               calls[c].node = VoiceOsc(i))
    /\ [][lastOp' = "playData" =>
             currentDissonanceMultiplier' = currentDissonanceMultiplier]_vars

\* With no session live and 2.5 stored, playData has started a CRITICAL session:
\* its second voice has a frequency that 1.0 cannot give it, and is detuned.
C27_Witness ==
    /\ Played /\ calls[1].live = {}
    /\ calls[1].node[1] = "CRITICAL" /\ currentDissonanceMultiplier = 2500
    /\ baseFrequencies[2] \notin FreqsOf("CRITICAL", calls[1].node[3], 1000, 1)
    /\ param[VoiceOsc(1)].detune \in DetunesOf(2500, 1)


----------------------------------------------------------------------------
\* The calls of the last handler that stopAll makes on a live session, and those
\* by which playData builds one
StopCalls == CallsOf("stop") \cup CallsOf("clearTimeout")
BuildCalls == CallsOf("osc.start") \cup CallsOf("setTimeout")

\* C28: once handleStart has completed, after any sequence of selections and
\* toggles, isPlaying is true exactly when the engine has a live session. A
\* selection leaves isPlaying true and the session of the selected record live; a
\* toggle while playing calls stopAll, and leaves neither; a toggle while stopped,
\* with a location active, calls playData for it, and leaves both.
C28_FlagIffSession ==
    /\ [](hasInteracted => (isPlaying <=> EnsembleLive /\ TimeoutArmed))
    /\ [](hasInteracted => (~isPlaying <=> NoVoices /\ NoVoiceSounds /\ NoTimer))
    /\ [](lastOp = "handleLocationSelect" =>
             /\ isPlaying /\ EnsembleLive
             /\ calls[1].ev = "setFilterFrequency"
             /\ NVoices = Profile(activeLocation.level).oscillatorCount
             /\ \E c \in CallsOf("playData") :
                   calls[c].node = <<activeLocation.level, activeLocation.density,
                                     activeLocation.lat>>)
    /\ [][(hasInteracted /\ lastOp' = "togglePlay" /\ isPlaying' # isPlaying) =>
             IF isPlaying
             THEN /\ StopCalls' # {} /\ BuildCalls' = {}
                  /\ NoVoices'
             ELSE /\ activeLocation # NoLocation
                  /\ BuildCalls' # {}
                  /\ calls'[1].ev = "playData"
                  /\ calls'[1].node[1] = activeLocation.level
                  /\ EnsembleLive'
         ]_vars

\* The session of a selected CRITICAL record was stopped by a toggle and started
\* again by the next: isPlaying is true and its eight voices sound.
C28_Witness ==
    /\ hasInteracted /\ lastOp = "togglePlay"
    /\ isPlaying /\ NVoices = 8
    /\ activeLocation.level = "CRITICAL"
    /\ calls[1].ev = "playData" /\ calls[1].live = {}


----------------------------------------------------------------------------
\* The modulator depth of voice i: the gain of the first of the three nodes the
\* voice has in activeNodes
VoiceLfoGain(i) == activeNodes[3 * i + 1]
\* The rates playData can give a modulator of modulation speed speed
LfoRatesOf(speed) == {(speed * (r + 1000)) \div 2000 : r \in DrawValues}

\* C29: for a level that is none of LOW, MODERATE, HIGH, playData takes the
\* CRITICAL branch of the profile selection: 8 voices, sawtooth on the even
\* ones, inherent dissonance 1.25, modulation speed 8. The initial values of the
\* selection (2 voices, sine, 1.0, 0.1) are used for no level. The modulator
\* depth is 250 when the level is exactly CRITICAL and 50 for every other level,
\* the unrecognized ones included.
C29_UnknownLevelIsCritical ==
    Played =>
        LET level == calls[1].node[1]
            lat   == calls[1].node[3]
        IN /\ level \notin {"LOW", "MODERATE", "HIGH"} =>
                 /\ NVoices = 8 /\ Len(baseFrequencies) = 8
                 /\ \A i \in 0..7 :
                       /\ param[VoiceOsc(i)].type =
                             IF i % 2 = 0 THEN "sawtooth" ELSE "sine"
                       /\ baseFrequencies[i + 1] \in
                             {VoiceFreq(BaseFreq(lat), i, 1250,
                                        currentDissonanceMultiplier, r) :
                                 r \in DrawValues}
                       /\ param[VoiceLfo(i)].frequency \in LfoRatesOf(8000)
           /\ NVoices \in {3, 4, 6, 8}
           /\ \A i \in 0..(NVoices - 1) :
                 /\ param[VoiceLfo(i)].frequency \notin LfoRatesOf(100)
                 /\ Kind(VoiceLfoGain(i)) = "lfoGain"
                 /\ param[VoiceLfoGain(i)].gain =
                       IF level = "CRITICAL" THEN 250 ELSE 50

\* A session for a record of level SEVERE: eight voices, sawtooth first, with
\* the modulator depth of the lower tiers.
C29_Witness ==
    /\ Played /\ calls[1].node[1] = "SEVERE"
    /\ NVoices = 8
    /\ param[VoiceOsc(0)].type = "sawtooth"
    /\ param[VoiceLfoGain(7)].gain = 50


----------------------------------------------------------------------------
\* The detune calls of the last handler, in the order it made them
DetuneCalls ==
    SelectSeq(calls, LAMBDA c : c.ev = "detune.setTargetAtTime")

\* C30: in every reachable state the tracked collections have the shape of one
\* number n of voices, n one of 0, 3, 4, 6, 8: baseFrequencies has n entries,
\* oscillators 2n, the modulator and then the tone generator of each voice, and
\* activeNodes 3n, the modulator depth, the gain and the panner of each voice;
\* the modulator at 2i feeds, through its depth, the tone generator at 2i + 1.
\* So the walk of setDissonance, two entries at a time, meets each voice index
\* 0..n-1 once, in order, and sets the detune of that voice's tone generator (and
\* the rate of that voice's own modulator).
C30_TrackedShape ==
    LET n == Len(baseFrequencies)
    IN /\ n \in {0, 3, 4, 6, 8}
       /\ Len(oscillators) = 2 * n
       /\ Len(activeNodes) = 3 * n
       /\ \A i \in 0..(n - 1) :
             LET lfo == oscillators[2 * i + 1]
                 osc == oscillators[2 * i + 2]
                 depth == activeNodes[3 * i + 1]
             IN /\ Kind(lfo) = "lfo" /\ Kind(osc) = "osc"
                /\ Kind(depth) = "lfoGain"
                /\ Kind(activeNodes[3 * i + 2]) = "gain"
                /\ Kind(activeNodes[3 * i + 3]) = "panner"
                /\ \A node \in {lfo, depth, activeNodes[3 * i + 2],
                                activeNodes[3 * i + 3]} :
                      Owner(node) = Owner(osc) /\ node[3] = i /\ osc[3] = i
                /\ <<lfo, depth>> \in edges /\ <<depth, osc>> \in edges
       /\ (lastOp = "setDissonance" /\ n > 0) =>
             /\ Len(DetuneCalls) = n
             /\ \A i \in 0..(n - 1) :
                   /\ DetuneCalls[i + 1].node = oscillators[2 * i + 2]
                   /\ DetuneCalls[i + 1].value
                         \in DetunesOf(currentDissonanceMultiplier, i)
             /\ \A c \in CallsOf("lfo.frequency.setTargetAtTime") :
                   /\ Kind(calls[c].node) = "lfo"
                   /\ calls[c - 1].ev = "detune.setTargetAtTime"
                   /\ calls[c - 1].node[3] = calls[c].node[3]

\* setDissonance(2.5) has walked the six voices of a HIGH session: the last
\* detune it set is that of the tone generator at the end of oscillators.
C30_Witness ==
    /\ lastOp = "setDissonance" /\ currentDissonanceMultiplier = 2500
    /\ Len(baseFrequencies) = 6 /\ Len(oscillators) = 12 /\ Len(activeNodes) = 18
    /\ Len(DetuneCalls) = 6
    /\ DetuneCalls[6].node = oscillators[12]
    /\ Cardinality(CallsOf("lfo.frequency.setTargetAtTime")) = 6

====
